---------------------------- MODULE Spec2Model ----------------------------
(***************************************************************************)
(* Model of notion_utils.py: the retry/backoff loops of                    *)
(* query_notion_database, update_notion_page and create_script_report_page *)
(* (single-request path and chunked path).                                 *)
(*                                                                         *)
(* One behaviour is one invocation of one operation.  Each loop iteration  *)
(* (send the request, receive the outcome, run the matching except clause) *)
(* is one action whose outcome is drawn from Outcomes(..).  Sleeps are     *)
(* recorded in milliseconds, so that asyncio.sleep(0.5) is 500.            *)
(*                                                                         *)
(* check_script_exists and reset_all_channels call query_notion_database   *)
(* and update_notion_page with the default max_retries.                    *)
(*                                                                         *)
(* sent, waits, seen, lastOutcome and lastWaits are history variables:     *)
(* they record what the invocation did and never influence it.  sent holds *)
(* every request of the invocation; the other four describe the call of    *)
(* query_notion_database, update_notion_page or create_script_report_page  *)
(* that is running or ran last.                                            *)
(***************************************************************************)
EXTENDS Integers, Sequences, FiniteSets, TLC

\* ------------------------------------------------------------ bounds
\* largest max_retries argument explored (0 .. MaxRetriesBound)
MaxRetriesBound == 3
\* contents of up to MaxParts * MAX_BLOCKS_PER_REQUEST + 1 blocks are explored
MaxParts == 2
\* a query response carries at most MaxRecords records
MaxRecords == 2

\* ------------------------------------------------- program constants
MAX_BLOCKS_PER_REQUEST == 90
\* default of headers.get("Retry-After", 5), in seconds
DefaultRetryAfter == 5
\* asyncio.sleep(0.5) after a successful append, in milliseconds
AppendPauseMs == 500
MsPerSecond == 1000
\* max_retries: int = 3, the default the composite operations call with
DefaultMaxRetries == 3

\* ------------------------------------------------------------ values
NoPage == "None"
PageIds == {"pgA", "pgB"}
DatabaseIds == {"db1"}
\* the two configured databases
SCRIPT_DB_ID == "scriptDb"
REFERENCE_DB_ID == "referenceDb"
\* the video_url arguments of check_script_exists
VideoUrls == {"https://x/y"}
UpdateTargets == {"pg0"}

Digits == <<"0", "1", "2", "3", "4", "5", "6", "7", "8", "9">>

IsDigit(c) == \E d \in 1..10 : Digits[d] = c

DigitVal(c) == (CHOOSE d \in 1..10 : Digits[d] = c) - 1

\* the Retry-After header values a 429 response is given: decimal integers
\* and a string int() rejects (the start of an HTTP-date)
HeaderValues == { <<"7">>, <<"1", "2">>, <<"W", "e", "d">> }

AbsentHeader == [present |-> FALSE, value |-> <<>>]

Headers == {AbsentHeader} \cup { [present |-> TRUE, value |-> v] : v \in HeaderValues }

\* the records a query response carries: a page id and properties.URL, which
\* has a "url" key (hasUrl) or not; two urls differ only in the case of a letter
Records == { [id |-> "r1", hasUrl |-> TRUE, url |-> "https://x/y"],
             [id |-> "r2", hasUrl |-> TRUE, url |-> "https://x/Y"],
             [id |-> "r3", hasUrl |-> FALSE, url |-> ""] }

RECURSIVE ListsOfLen(_)
ListsOfLen(n) ==
    IF n = 0 THEN { <<>> }
    ELSE { Append(l, r) : l \in ListsOfLen(n - 1), r \in Records }

\* a query returns every page once
Distinct(l) == \A j, k \in 1..Len(l) : j # k => l[j] # l[k]

ResultLists == { l \in UNION { ListsOfLen(n) : n \in 0..MaxRecords } : Distinct(l) }

\* a JSON object body: with or without a "results" field, with or without an id
NoBody == [id |-> NoPage, hasResults |-> FALSE, results |-> <<>>]

QueryBodies == {NoBody} \cup { [id |-> NoPage, hasResults |-> TRUE, results |-> l] : l \in ResultLists }

PageBodies == { [id |-> p, hasResults |-> FALSE, results |-> <<>>] : p \in PageIds }

Outcome(k, s, h, b) == [kind |-> k, status |-> s, retryAfter |-> h, body |-> b]

NoOutcome == Outcome("none", 0, AbsentHeader, NoBody)

\* what one attempt can end with: a 2xx response, httpx.TimeoutException,
\* httpx.HTTPStatusError (429 with any Retry-After, or another status), or any
\* other exception
Failures == { Outcome("timeout", 0, AbsentHeader, NoBody),
              Outcome("other", 0, AbsentHeader, NoBody),
              Outcome("http", 500, AbsentHeader, NoBody) }
            \cup { Outcome("http", 429, h, NoBody) : h \in Headers }

Outcomes(req) ==
    Failures \cup
    { Outcome("success", 200, AbsentHeader, b) :
        b \in CASE req = "query" -> QueryBodies
                [] req = "create" -> PageBodies
                [] OTHER -> {NoBody} }

\* ------------------------------------------------------ return values
Val(t, l, p, b) == [type |-> t, list |-> l, page |-> p, bool |-> b]

Running == Val("running", <<>>, NoPage, FALSE)
RetList(l) == Val("list", l, NoPage, FALSE)
RetNone == Val("none", <<>>, NoPage, FALSE)
RetPage(p) == IF p = NoPage THEN RetNone ELSE Val("page", <<>>, p, FALSE)
RetBool(b) == Val("bool", <<>>, NoPage, b)
\* an exception leaving the operation
Raised == Val("raised", <<>>, NoPage, FALSE)

\* ------------------------------------------------------ pure helpers
RECURSIVE Pow2(_)
Pow2(n) == IF n <= 0 THEN 1 ELSE 2 * Pow2(n - 1)

RECURSIVE ParseDigits(_, _)
ParseDigits(s, acc) ==
    IF s = <<>> THEN acc ELSE ParseDigits(Tail(s), 10 * acc + DigitVal(Head(s)))

\* int(text) on the header values above: the number a digit string denotes,
\* ValueError (ok = FALSE) for the empty string and for any non-digit
ParseInt(s) ==
    IF s # <<>> /\ \A k \in 1..Len(s) : IsDigit(s[k])
    THEN [ok |-> TRUE, n |-> ParseDigits(s, 0)]
    ELSE [ok |-> FALSE, n |-> 0]

\* int(e.response.headers.get("Retry-After", 5))
RetryAfter(h) ==
    IF h.present THEN ParseInt(h.value) ELSE [ok |-> TRUE, n |-> DefaultRetryAfter]

\* Backoff with the exponent off by one: sleep(2 ** (attempt + 1))
Backoff_OffByOne(a) == MsPerSecond * Pow2(a + 1)

\* asyncio.sleep(2 ** attempt), in milliseconds
Backoff(a) == MsPerSecond * Pow2(a)

\* attempt < max_retries - 1
HasMoreAttempts(a, m) == a < m - 1

\* ResultsOf reading a key the body never has: .get("result", [])
ResultsOf_WrongKey(body) == <<>>

\* response.json().get("results", [])
ResultsOf(body) == IF body.hasResults THEN body.results ELSE <<>>

Min(a, b) == IF a < b THEN a ELSE b

\* Python slice s[lo:hi] (0-based, hi exclusive, clipped to the sequence)
Slice(s, lo, hi) == SubSeq(s, lo + 1, Min(hi, Len(s)))

\* create_markdown_blocks(content): the converter is an external pure function;
\* a content is identified by the number of blocks it yields and block k of the
\* sequence is k
create_markdown_blocks(c) == [k \in 1..c |-> k]

\* len(data["children"]) > MAX_BLOCKS_PER_REQUEST
NeedsChunking(children) == Len(children) > MAX_BLOCKS_PER_REQUEST

\* data["children"][:MAX_BLOCKS_PER_REQUEST]
FirstPartChildren(children) == Slice(children, 0, MAX_BLOCKS_PER_REQUEST)

\* data["children"][MAX_BLOCKS_PER_REQUEST:]
RemainingBlocks(children) == Slice(children, MAX_BLOCKS_PER_REQUEST, Len(children))

\* AppendBlocks with the slice starting one too far: remaining_blocks[i + 1:...]
AppendBlocks_SkipsOne(remaining, j) == Slice(remaining, j + 1, j + MAX_BLOCKS_PER_REQUEST)

\* remaining_blocks[i:i + MAX_BLOCKS_PER_REQUEST]
AppendBlocks(remaining, j) == Slice(remaining, j, j + MAX_BLOCKS_PER_REQUEST)

\* SingleRequestChildren cut one short of the limit: children[:MAX - 1]
SingleRequestChildren_Truncated(children) == Slice(children, 0, MAX_BLOCKS_PER_REQUEST - 1)

\* json=data in the single-request path: all the children inline
SingleRequestChildren(children) == children

\* the contents explored: block counts around every multiple of the limit
Contents ==
    { c \in 0..(MaxParts * MAX_BLOCKS_PER_REQUEST + 1) :
        \E k \in 0..MaxParts : \E d \in {-1, 0, 1} : c = k * MAX_BLOCKS_PER_REQUEST + d }

\* ---------------------------------------------- the except clauses
\* what an iteration decides: next is "return" (leave the function with value),
\* "raise" (an exception leaves the function), "retry" (next iteration),
\* "break" (leave the loop on success) or "end" (the last iteration ended
\* without leaving the function); sleeps are the asyncio.sleep calls it made
Decision(nx, sl, v) == [next |-> nx, sleeps |-> sl, value |-> v]

\* the loops of query_notion_database, update_notion_page and the
\* single-request path of create_script_report_page: success returns succ;
\* TimeoutException and Exception back off or return fail; HTTPStatusError
\* waits Retry-After on a 429 with attempts left, else returns fail
ClassifiedHandler(o, a, m, succ, fail) ==
    CASE o.kind = "success" -> Decision("return", <<>>, succ)
      [] o.kind = "http" ->
            IF o.status = 429 /\ HasMoreAttempts(a, m)
            THEN IF RetryAfter(o.retryAfter).ok
                 THEN Decision("retry", <<MsPerSecond * RetryAfter(o.retryAfter).n>>, Running)
                 ELSE Decision("raise", <<>>, Raised)
            ELSE Decision("return", <<>>, fail)
      [] OTHER ->
            IF HasMoreAttempts(a, m)
            THEN Decision("retry", <<Backoff(a)>>, Running)
            ELSE Decision("return", <<>>, fail)

\* FirstPartHandler returning False, as update_notion_page does, on the last attempt
FirstPartHandler_ReturnsFalse(o, a, m) ==
    IF o.kind = "success"
    THEN Decision("break", <<>>, Running)
    ELSE IF HasMoreAttempts(a, m)
         THEN Decision("retry", <<Backoff(a)>>, Running)
         ELSE Decision("return", <<>>, RetBool(FALSE))

\* the first-part loop of the chunked path: success breaks out of the loop,
\* every exception backs off or, on the last attempt, returns None
FirstPartHandler(o, a, m) ==
    IF o.kind = "success"
    THEN Decision("break", <<>>, Running)
    ELSE IF HasMoreAttempts(a, m)
         THEN Decision("retry", <<Backoff(a)>>, Running)
         ELSE Decision("return", <<>>, RetNone)

\* AppendHandler giving up the operation, as the first-part loop does, on the
\* last attempt
AppendHandler_Aborts(o, a, m) ==
    IF o.kind = "success"
    THEN Decision("break", <<AppendPauseMs>>, Running)
    ELSE IF HasMoreAttempts(a, m)
         THEN Decision("retry", <<Backoff(a)>>, Running)
         ELSE Decision("return", <<>>, RetNone)

\* AppendHandler leaving the group at its first failed attempt
AppendHandler_GivesUp(o, a, m) ==
    IF o.kind = "success"
    THEN Decision("break", <<AppendPauseMs>>, Running)
    ELSE Decision("end", <<>>, Running)

\* AppendHandler without the break after a successful append
AppendHandler_NoBreak(o, a, m) ==
    IF o.kind = "success"
    THEN (IF HasMoreAttempts(a, m)
          THEN Decision("retry", <<AppendPauseMs>>, Running)
          ELSE Decision("end", <<AppendPauseMs>>, Running))
    ELSE IF HasMoreAttempts(a, m)
         THEN Decision("retry", <<Backoff(a)>>, Running)
         ELSE Decision("end", <<>>, Running)

\* AppendHandler without the pause after a successful append
AppendHandler_NoPause(o, a, m) ==
    IF o.kind = "success"
    THEN Decision("break", <<>>, Running)
    ELSE IF HasMoreAttempts(a, m)
         THEN Decision("retry", <<Backoff(a)>>, Running)
         ELSE Decision("end", <<>>, Running)

\* an append loop of the chunked path: success pauses 0.5 s and breaks, every
\* exception backs off or, on the last attempt, only logs a warning
AppendHandler(o, a, m) ==
    IF o.kind = "success"
    THEN Decision("break", <<AppendPauseMs>>, Running)
    ELSE IF HasMoreAttempts(a, m)
         THEN Decision("retry", <<Backoff(a)>>, Running)
         ELSE Decision("end", <<>>, Running)

\* ------------------------------------------------------------- state
VARIABLES
    op,             \* the operation invoked: "query", "create", "update", "exists", "reset"
    max_retries,    \* its max_retries argument
    target,         \* its database_id or page_id argument
    content,        \* create: the content argument
    pc,             \* where the invocation stands
    attempt,        \* the loop variable of the running retry loop
    children,       \* create: data["children"]
    page_response,  \* chunked create: the id of the page created, or NoPage
    i,              \* chunked create: offset of the running append group
    success,        \* chunked create: the flag of the running append group
    result,         \* Running, the value returned, or Raised
    video_url,      \* check_script_exists: the video_url argument
    ret,            \* composite operations: the value the latest call returned
    records,        \* reset_all_channels: reference_pages
    idx,            \* reset_all_channels: index of the page the loop is at
    success_count,  \* reset_all_channels: success_count
    sent,           \* history: the requests sent, in order
    waits,          \* history: the asyncio.sleep durations, in order, in ms
    seen,           \* history: the classes of outcome received so far
    lastOutcome,    \* history: the outcome of the latest attempt
    lastWaits,      \* history: the sleeps the latest attempt's handling made
    cop,            \* concurrent calls: the operation each call runs
    cmax,           \* concurrent calls: each call's max_retries
    cpc,            \* concurrent calls: where each call stands
    cattempt,       \* concurrent calls: the loop variable, one per frame
    csent,          \* history: the number of requests each call has sent
    cwaits,         \* history: the sleeps each call has made, in ms
    cseen,          \* history: the outcomes each call's requests got, in order
    cresult         \* concurrent calls: Running, the value returned, or Raised

vars == <<op, max_retries, target, content, pc, attempt, children, page_response,
          i, success, result, video_url, ret, records, idx, success_count,
          sent, waits, seen, lastOutcome, lastWaits,
          cop, cmax, cpc, cattempt, csent, cwaits, cseen, cresult>>

\* the state of the calls made concurrently from different call sites
conc == <<cop, cmax, cpc, cattempt, csent, cwaits, cseen, cresult>>

\* the calls running concurrently on the event loop
Calls == {1, 2}

\* the frame of one invocation at a time: the variables above but conc
single == <<op, max_retries, target, content, pc, attempt, children, page_response,
            i, success, result, video_url, ret, records, idx, success_count,
            sent, waits, seen, lastOutcome, lastWaits>>

args == <<op, max_retries, target, content, video_url>>

\* the locals of a composite operation, which the calls it makes leave alone
caller == <<records, idx, success_count>>

\* what the invocation and its latest call returned
returned == <<result, ret>>

Composite == op \in {"exists", "reset"}

\* a request sent, with the index of the attempt that sent it and, for the
\* history, whether its response was a success and the page id that response named
Request(k, t, c, a, o) ==
    [kind |-> k, target |-> t, children |-> c, attempt |-> a,
     ok |-> (o.kind = "success"), page |-> o.body.id]

Class(o) == IF o.kind = "http" THEN (IF o.status = 429 THEN "429" ELSE "http") ELSE o.kind

Init ==
    /\ op \in {"query", "create", "update", "exists", "reset"}
    /\ max_retries \in (IF Composite THEN {DefaultMaxRetries} ELSE 0..MaxRetriesBound)
    /\ target \in (CASE op = "update" -> UpdateTargets
                     [] op = "exists" -> {SCRIPT_DB_ID}
                     [] op = "reset" -> {REFERENCE_DB_ID}
                     [] OTHER -> DatabaseIds)
    /\ video_url \in (IF op = "exists" THEN VideoUrls ELSE {""})
    /\ ret = Running
    /\ records = <<>>
    /\ idx = 0
    /\ success_count = 0
    /\ content \in (IF op = "create" THEN Contents ELSE {0})
    /\ pc = op
    /\ attempt = 0
    /\ children = <<>>
    /\ page_response = NoPage
    /\ i = 0
    /\ success = FALSE
    /\ result = Running
    /\ sent = <<>>
    /\ waits = <<>>
    /\ seen = {}
    /\ lastOutcome = NoOutcome
    /\ lastWaits = <<>>
    /\ cop = [c \in Calls |-> "query"]
    /\ cmax = [c \in Calls |-> 0]
    /\ cpc = [c \in Calls |-> "done"]
    /\ cattempt = [c \in Calls |-> 0]
    /\ csent = [c \in Calls |-> 0]
    /\ cwaits = [c \in Calls |-> <<>>]
    /\ cseen = [c \in Calls |-> <<>>]
    /\ cresult = [c \in Calls |-> Running]

\* the bookkeeping of one attempt: the request sent, the outcome received and
\* the sleeps its handling made
Record(req, o, d) ==
    /\ sent' = Append(sent, req)
    /\ waits' = waits \o d.sleeps
    /\ seen' = seen \cup {Class(o)}
    /\ lastOutcome' = o
    /\ lastWaits' = d.sleeps

\* return value / raise value leave the function: the invocation is over, or,
\* in a call a composite operation made, the value goes to the caller (an
\* exception goes through the caller, which catches nothing)
Leave(v) ==
    IF Composite /\ pc \in {"query", "update"} /\ v.type # "raised"
    THEN /\ pc' = IF pc = "query" THEN "query_returned" ELSE "update_returned"
         /\ ret' = v
         /\ UNCHANGED result
    ELSE /\ pc' = "done"
         /\ result' = v
         /\ UNCHANGED ret

\* ClassifiedStep as a loop that counts no attempt on a retry: while True
ClassifiedStep_NoCount(req, o, d) ==
    /\ Record(req, o, d)
    /\ IF d.next = "retry"
       THEN UNCHANGED <<attempt, pc, returned>>
       ELSE /\ Leave(d.value)
            /\ UNCHANGED attempt
    /\ UNCHANGED <<args, caller, children, page_response, i, success>>

\* one iteration of a loop that leaves the function on success and on failure
ClassifiedStep(req, o, d) ==
    /\ Record(req, o, d)
    /\ IF d.next = "retry"
       THEN /\ attempt' = attempt + 1
            /\ UNCHANGED <<pc, returned>>
       ELSE /\ Leave(d.value)
            /\ UNCHANGED attempt
    /\ UNCHANGED <<args, caller, children, page_response, i, success>>

\* the loop body ran max_retries times (or never): the return after the loop
LoopFallThrough(v) ==
    /\ attempt >= max_retries
    /\ Leave(v)
    /\ UNCHANGED <<args, caller, attempt, children, page_response, i, success,
                   sent, waits, seen, lastOutcome, lastWaits>>

\* the outcomes an attempt is given.  The calls of a composite operation are
\* given one outcome of every kind the handlers tell apart: success, timeout,
\* HTTP 500, and 429 without Retry-After and with one int() rejects
Offered(req) ==
    IF Composite
    THEN { o \in Outcomes(req) :
             /\ o.kind # "other"
             /\ o.retryAfter.present => ~RetryAfter(o.retryAfter).ok }
    ELSE Outcomes(req)

\* ------------------------------------------- query_notion_database
QueryAttempt(o) ==
    /\ pc = "query"
    /\ attempt < max_retries
    /\ o \in Offered("query")
    /\ ClassifiedStep(Request("query", target, <<>>, attempt, o), o,
                      ClassifiedHandler(o, attempt, max_retries,
                                        RetList(ResultsOf(o.body)), RetList(<<>>)))
    /\ UNCHANGED conc

QueryFallThrough ==
    /\ pc = "query"
    /\ LoopFallThrough(RetList(<<>>))
    /\ UNCHANGED conc

\* ---------------------------------------------- update_notion_page
\* return True
UpdateSuccessValue == RetBool(TRUE)

\* UpdateFailureValue with the wrong constant: return True
UpdateFailureValue_True == RetBool(TRUE)

\* return False
UpdateFailureValue == RetBool(FALSE)

UpdateAttempt(o) ==
    /\ pc = "update"
    /\ attempt < max_retries
    /\ o \in Offered("update")
    /\ ClassifiedStep(Request("update", target, <<>>, attempt, o), o,
                      ClassifiedHandler(o, attempt, max_retries,
                                        UpdateSuccessValue, UpdateFailureValue))
    /\ UNCHANGED conc

UpdateFallThrough ==
    /\ pc = "update"
    /\ LoopFallThrough(UpdateFailureValue)
    /\ UNCHANGED conc

\* --------------------------------------- create_script_report_page
\* data = {..., "children": create_markdown_blocks(content)} and the choice
\* between the chunked and the single-request path
CreateStart ==
    /\ pc = "create"
    /\ children' = create_markdown_blocks(content)
    /\ pc' = IF NeedsChunking(children') THEN "first" ELSE "single"
    /\ UNCHANGED <<args, caller, attempt, page_response, i, success, returned,
                   sent, waits, seen, lastOutcome, lastWaits>>
    /\ UNCHANGED conc

\* single-request path
SingleAttempt(o) ==
    /\ pc = "single"
    /\ attempt < max_retries
    /\ ClassifiedStep(Request("create", target, SingleRequestChildren(children), attempt, o), o,
                      ClassifiedHandler(o, attempt, max_retries,
                                        RetPage(o.body.id), RetNone))
    /\ UNCHANGED conc

SingleFallThrough ==
    /\ pc = "single"
    /\ LoopFallThrough(RetNone)
    /\ UNCHANGED conc

\* chunked path: one iteration of the first-part loop
FirstAttempt(o) ==
    /\ pc = "first"
    /\ attempt < max_retries
    /\ LET d == FirstPartHandler(o, attempt, max_retries) IN
        /\ Record(Request("create", target, FirstPartChildren(children), attempt, o), o, d)
        /\ CASE d.next = "break" ->
                    /\ page_response' = o.body.id
                    /\ pc' = "first_end"
                    /\ UNCHANGED <<attempt, returned>>
             [] d.next = "retry" ->
                    /\ attempt' = attempt + 1
                    /\ UNCHANGED <<pc, page_response, returned>>
             [] OTHER ->
                    /\ Leave(d.value)
                    /\ UNCHANGED <<attempt, page_response>>
    /\ UNCHANGED <<args, caller, children, i, success>>
    /\ UNCHANGED conc

\* chunked path: the first-part loop ran out without break or return
FirstFallThrough ==
    /\ pc = "first"
    /\ attempt >= max_retries
    /\ pc' = "first_end"
    /\ UNCHANGED <<args, caller, attempt, children, page_response, i, success, returned,
                   sent, waits, seen, lastOutcome, lastWaits>>
    /\ UNCHANGED conc

\* for i in range(0, len(remaining_blocks), MAX_BLOCKS_PER_REQUEST): the loop
\* reaches offset j; it starts that group's retry loop, or returns
\* page_response when the range is over
EnterGroup(j) ==
    IF j < Len(RemainingBlocks(children))
    THEN /\ i' = j
         /\ success' = FALSE
         /\ attempt' = 0
         /\ pc' = "append"
         /\ UNCHANGED returned
    ELSE /\ Leave(RetPage(page_response))
         /\ UNCHANGED <<i, success, attempt>>

\* chunked path: if not page_response: return None; else the append loop starts
AfterFirstPart ==
    /\ pc = "first_end"
    /\ IF page_response = NoPage
       THEN /\ Leave(RetNone)
            /\ UNCHANGED <<i, success, attempt>>
       ELSE EnterGroup(0)
    /\ UNCHANGED <<args, caller, children, page_response,
                   sent, waits, seen, lastOutcome, lastWaits>>
    /\ UNCHANGED conc

\* chunked path: one iteration of the retry loop of the append group at i
AppendAttempt(o) ==
    /\ pc = "append"
    /\ attempt < max_retries
    /\ LET d == AppendHandler(o, attempt, max_retries) IN
        /\ Record(Request("append", page_response,
                          AppendBlocks(RemainingBlocks(children), i), attempt, o), o, d)
        /\ CASE d.next = "break" ->
                    /\ success' = TRUE
                    /\ pc' = "append_end"
                    /\ UNCHANGED <<attempt, returned>>
             [] d.next = "retry" ->
                    /\ attempt' = attempt + 1
                    /\ UNCHANGED <<pc, success, returned>>
             [] d.next = "end" ->
                    /\ attempt' = attempt + 1
                    /\ pc' = "append_end"
                    /\ UNCHANGED <<success, returned>>
             [] OTHER ->
                    /\ Leave(d.value)
                    /\ UNCHANGED <<attempt, success>>
    /\ UNCHANGED <<args, caller, children, page_response, i>>
    /\ UNCHANGED conc

\* chunked path: the group's retry loop is over (if not success: a warning is
\* logged); the range moves to the next offset
NextGroup ==
    /\ pc = "append_end"
    /\ EnterGroup(i + MAX_BLOCKS_PER_REQUEST)
    /\ UNCHANGED <<args, caller, children, page_response,
                   sent, waits, seen, lastOutcome, lastWaits>>
    /\ UNCHANGED conc

\* --------------------------------------------- check_script_exists
\* script_pages = await query_notion_database(SCRIPT_DB_ID)
ExistsCall ==
    /\ pc = "exists"
    /\ pc' = "query"
    /\ attempt' = 0
    /\ UNCHANGED <<args, caller, children, page_response, i, success, returned,
                   sent, waits, seen, lastOutcome, lastWaits>>
    /\ UNCHANGED conc

\* the scan of the pages: True at the first page whose properties.URL has a
\* "url" equal to video_url, False when the loop ends
RECURSIVE ScriptExists(_, _)
ScriptExists(pages, url) ==
    IF pages = <<>> THEN FALSE
    ELSE IF Head(pages).hasUrl /\ Head(pages).url = url THEN TRUE
    ELSE ScriptExists(Tail(pages), url)

ExistsScan ==
    /\ pc = "query_returned"
    /\ op = "exists"
    /\ pc' = "done"
    /\ result' = RetBool(ScriptExists(ret.list, video_url))
    /\ UNCHANGED <<args, caller, attempt, children, page_response, i, success, ret,
                   sent, waits, seen, lastOutcome, lastWaits>>
    /\ UNCHANGED conc

\* ---------------------------------------------- reset_all_channels
\* reference_pages = await query_notion_database(REFERENCE_DB_ID)
ResetCall ==
    /\ pc = "reset"
    /\ pc' = "query"
    /\ attempt' = 0
    /\ UNCHANGED <<args, caller, children, page_response, i, success, returned,
                   sent, waits, seen, lastOutcome, lastWaits>>
    /\ UNCHANGED conc

\* success_count = 0 and the start of the loop over reference_pages
ResetLoopStart ==
    /\ pc = "query_returned"
    /\ op = "reset"
    /\ records' = ret.list
    /\ success_count' = 0
    /\ idx' = 0
    /\ pc' = "reset_loop"
    /\ UNCHANGED <<args, attempt, children, page_response, i, success, returned,
                   sent, waits, seen, lastOutcome, lastWaits>>
    /\ UNCHANGED conc

\* the index of the page the loop takes after the page at k
NextIndex(k) == k + 1

\* PageAt walking the pages from the last to the first: reversed(reference_pages)
PageAt_Reversed(pages, k) == pages[Len(pages) - k]

\* the page the loop is at when it has taken k pages: pages in list order
PageAt(pages, k) == pages[k + 1]

\* for page in reference_pages: success = await update_notion_page(page.get("id"),
\* properties); after the last page, return success_count > 0.  waits, seen,
\* lastOutcome and lastWaits start afresh with the call
ResetNext ==
    /\ pc = "reset_loop"
    /\ IF idx < Len(records)
       THEN /\ target' = PageAt(records, idx).id
            /\ attempt' = 0
            /\ pc' = "update"
            /\ waits' = <<>>
            /\ seen' = {}
            /\ lastOutcome' = NoOutcome
            /\ lastWaits' = <<>>
            /\ UNCHANGED returned
       ELSE /\ pc' = "done"
            /\ result' = RetBool(success_count > 0)
            /\ UNCHANGED <<target, attempt, ret, waits, seen, lastOutcome, lastWaits>>
    /\ UNCHANGED <<op, max_retries, content, video_url, caller, children,
                   page_response, i, success, sent>>
    /\ UNCHANGED conc

\* if success: success_count += 1, and the loop moves to the next page
ResetAfterUpdate ==
    /\ pc = "update_returned"
    /\ success_count' = IF ret.bool THEN success_count + 1 ELSE success_count
    /\ idx' = NextIndex(idx)
    /\ pc' = "reset_loop"
    /\ UNCHANGED <<args, records, attempt, children, page_response, i, success, returned,
                   sent, waits, seen, lastOutcome, lastWaits>>
    /\ UNCHANGED conc

\* ------------------------------------------------------ specification
Next ==
    \/ \E o \in Outcomes("query") : QueryAttempt(o)
    \/ QueryFallThrough
    \/ \E o \in Outcomes("update") : UpdateAttempt(o)
    \/ UpdateFallThrough
    \/ CreateStart
    \/ \E o \in Outcomes("create") : SingleAttempt(o)
    \/ SingleFallThrough
    \/ \E o \in Outcomes("create") : FirstAttempt(o)
    \/ FirstFallThrough
    \/ AfterFirstPart
    \/ \E o \in Outcomes("append") : AppendAttempt(o)
    \/ NextGroup
    \/ ExistsCall
    \/ ExistsScan
    \/ ResetCall
    \/ ResetLoopStart
    \/ ResetNext
    \/ ResetAfterUpdate

Spec == Init /\ [][Next]_vars

\* ------------------------------------------------ concurrent calls
\* Calls of query_notion_database and update_notion_page made from different
\* call sites run interleaved on the event loop; a call gives up control at
\* its awaits only: the network call and asyncio.sleep.

\* AttemptCell with the loop variable kept in one module-level global
AttemptCell_Global(c) == 1

\* where call c keeps its loop variable: in its own frame
AttemptCell(c) == c

\* the outcomes given to the attempts of concurrent calls: one of every kind
\* the handlers tell apart
ConcOffered(o_p) ==
    { Outcome("success", 200, AbsentHeader,
              IF o_p = "query"
              THEN [id |-> NoPage, hasResults |-> TRUE,
                    results |-> <<CHOOSE r \in Records : r.id = "r1">>]
              ELSE NoBody),
      Outcome("timeout", 0, AbsentHeader, NoBody),
      Outcome("http", 500, AbsentHeader, NoBody),
      Outcome("http", 429, AbsentHeader, NoBody),
      Outcome("http", 429, [present |-> TRUE, value |-> <<"W", "e", "d">>], NoBody) }

\* what a call of operation o_p returns on success with outcome o
SuccessValue(o_p, o) ==
    IF o_p = "query" THEN RetList(ResultsOf(o.body)) ELSE UpdateSuccessValue

\* what a call of operation o_p returns when it gives up
FailureValue(o_p) ==
    IF o_p = "query" THEN RetList(<<>>) ELSE UpdateFailureValue

ConcInit ==
    /\ cop \in [Calls -> {"query", "update"}]
    /\ cmax \in [Calls -> 0..MaxRetriesBound]
    /\ cpc = [c \in Calls |-> "loop"]
    /\ cattempt = [c \in Calls |-> 0]
    /\ csent = [c \in Calls |-> 0]
    /\ cwaits = [c \in Calls |-> <<>>]
    /\ cseen = [c \in Calls |-> <<>>]
    /\ cresult = [c \in Calls |-> Running]
    \* no invocation of the single-call specification runs
    /\ op = "query"
    /\ max_retries = 0
    /\ target = "db1"
    /\ video_url = ""
    /\ ret = Running
    /\ records = <<>>
    /\ idx = 0
    /\ success_count = 0
    /\ content = 0
    /\ pc = "done"
    /\ attempt = 0
    /\ children = <<>>
    /\ page_response = NoPage
    /\ i = 0
    /\ success = FALSE
    /\ result = Running
    /\ sent = <<>>
    /\ waits = <<>>
    /\ seen = {}
    /\ lastOutcome = NoOutcome
    /\ lastWaits = <<>>

\* the loop takes its next iteration and awaits client.post / client.patch
ConcSend(c) ==
    /\ cpc[c] = "loop"
    /\ cattempt[AttemptCell(c)] < cmax[c]
    /\ csent' = [csent EXCEPT ![c] = @ + 1]
    /\ cpc' = [cpc EXCEPT ![c] = "awaiting"]
    /\ UNCHANGED <<cop, cmax, cattempt, cwaits, cseen, cresult, single>>

\* the awaited call ends with outcome o: the handler returns, raises, or
\* awaits asyncio.sleep
ConcReceive(c, o) ==
    /\ cpc[c] = "awaiting"
    /\ o \in ConcOffered(cop[c])
    /\ LET d == ClassifiedHandler(o, cattempt[AttemptCell(c)], cmax[c],
                                  SuccessValue(cop[c], o), FailureValue(cop[c]))
       IN  /\ cseen' = [cseen EXCEPT ![c] = Append(@, o)]
           /\ cwaits' = [cwaits EXCEPT ![c] = @ \o d.sleeps]
           /\ IF d.next = "retry"
              THEN /\ cpc' = [cpc EXCEPT ![c] = "sleeping"]
                   /\ UNCHANGED cresult
              ELSE /\ cpc' = [cpc EXCEPT ![c] = "done"]
                   /\ cresult' = [cresult EXCEPT ![c] = d.value]
    /\ UNCHANGED <<cop, cmax, cattempt, csent, single>>

\* asyncio.sleep is over: continue with the next value of the loop variable
ConcWake(c) ==
    /\ cpc[c] = "sleeping"
    /\ cattempt' = [cattempt EXCEPT ![AttemptCell(c)] = @ + 1]
    /\ cpc' = [cpc EXCEPT ![c] = "loop"]
    /\ UNCHANGED <<cop, cmax, csent, cwaits, cseen, cresult, single>>

\* the loop is exhausted: the return after the loop
ConcFallThrough(c) ==
    /\ cpc[c] = "loop"
    /\ cattempt[AttemptCell(c)] >= cmax[c]
    /\ cpc' = [cpc EXCEPT ![c] = "done"]
    /\ cresult' = [cresult EXCEPT ![c] = FailureValue(cop[c])]
    /\ UNCHANGED <<cop, cmax, cattempt, csent, cwaits, cseen, single>>

ConcNext ==
    \/ \E c \in Calls : ConcSend(c)
    \/ \E c \in Calls : \E o \in Outcomes("query") : ConcReceive(c, o)
    \/ \E c \in Calls : ConcWake(c)
    \/ \E c \in Calls : ConcFallThrough(c)

SpecConc == ConcInit /\ [][ConcNext]_vars

\* ------------------------------------------------- history helpers
Done == pc = "done"

Last(q) == q[Len(q)]

OkIdx == { k \in 1..Len(sent) : sent[k].ok }

\* the block sequence the converter produced for the call
AllBlocks == [k \in 1..content |-> k]

\* the latest attempt's handling chose to try the same request again
Retrying ==
    /\ pc \in {"query", "update", "single", "first", "append"}
    /\ sent # <<>>
    /\ attempt = Last(sent).attempt + 1

Chunked == op = "create" /\ content > MAX_BLOCKS_PER_REQUEST

\* the seconds a Retry-After header asks for, for the headers that state a number
NumericHeader(h) == ~h.present \/ h.value \in { <<"7">>, <<"1", "2">> }

HeaderSeconds(h) ==
    CASE ~h.present -> 5
      [] h.value = <<"7">> -> 7
      [] h.value = <<"1", "2">> -> 12

PageVal(p) == [type |-> "page", list |-> <<>>, page |-> p, bool |-> FALSE]

NoneVal == [type |-> "none", list |-> <<>>, page |-> NoPage, bool |-> FALSE]

BoolVal(b) == [type |-> "bool", list |-> <<>>, page |-> NoPage, bool |-> b]

ListVal(l) == [type |-> "list", list |-> l, page |-> NoPage, bool |-> FALSE]

RECURSIVE ConcatChildren(_)
ConcatChildren(reqs) ==
    IF reqs = <<>> THEN <<>> ELSE Head(reqs).children \o ConcatChildren(Tail(reqs))

\* ------------------------------------------------------------ claims

\* C1: no operation ever propagates an exception to its caller, whatever the
\* per-attempt outcomes are (success, timeout, 429 with any Retry-After value,
\* other HTTP error, other exception): it always ends by returning a value.
C1_NeverRaises == result.type # "raised"

\* C2: for every max_retries >= 1, a query whose every attempt times out or
\* raises a non-HTTP exception makes exactly max_retries attempts, returns the
\* empty sequence, and sleeps exactly 2^0, 2^1, ..., 2^(max_retries-2) seconds
\* between the attempts, with no sleep after the last one.
C2_TimeoutBackoff ==
    (op = "query" /\ Done /\ max_retries >= 1 /\ seen \subseteq {"timeout", "other"})
    => /\ Len(sent) = max_retries
       /\ \A k \in 1..Len(sent) : sent[k].kind = "query" /\ sent[k].attempt = k - 1
       /\ result = ListVal(<<>>)
       /\ waits = [k \in 1..(max_retries - 1) |-> 1000 * 2^(k - 1)]

C2_Witness ==
    /\ op = "query" /\ Done /\ max_retries = 3
    /\ seen = {"timeout", "other"}
    /\ waits = <<1000, 2000>>
    /\ result = ListVal(<<>>)

\* C3: in queryDatabase, updatePageProperties and createReportPage, a 429
\* response with Retry-After: N (5 when the header is absent) that is followed
\* by another attempt causes a wait of exactly N seconds before that attempt,
\* at every attempt index, and no 2^attempt wait for that attempt.
C3_RetryAfterHonoured ==
    (/\ lastOutcome.kind = "http" /\ lastOutcome.status = 429
     /\ NumericHeader(lastOutcome.retryAfter)
     /\ Retrying)
    => lastWaits = << 1000 * HeaderSeconds(lastOutcome.retryAfter) >>

\* C4: in every operation, an HTTP error response whose status is not 429 ends
\* the request with a failure after that single occurrence: no wait is made
\* and the same request is not sent again, whatever attempts remain.
C4_HttpErrorNotRetried ==
    (lastOutcome.kind = "http" /\ lastOutcome.status # 429)
    => /\ lastWaits = <<>>
       /\ ~Retrying

\* C5: createReportPage with content of n <= 90 blocks (90 included) sends only
\* create requests, each carrying all n blocks inline in their original order,
\* and no append request; it returns the page descriptor of the first
\* successful create (after which nothing is sent), and the failure signal
\* when max_retries attempts were made without success.
C5_SingleRequest ==
    (op = "create" /\ content <= 90)
    => /\ \A k \in 1..Len(sent) :
             /\ sent[k].kind = "create"
             /\ sent[k].target = target
             /\ sent[k].children = AllBlocks
       /\ OkIdx # {} => /\ OkIdx = {Len(sent)}
                         /\ Done
                         /\ result = PageVal(Last(sent).page)
       /\ (Done /\ OkIdx = {} /\ Len(sent) = max_retries) => result = NoneVal

C5_Witness ==
    /\ op = "create" /\ content = 90 /\ Done
    /\ Len(sent) = 2
    /\ Len(sent[2].children) = 90
    /\ result = PageVal("pgB")

\* C6: createReportPage with content of n > 90 blocks, when every request
\* succeeds on its first attempt (max_retries >= 1), sends one create request
\* with blocks 1..90 and then ceil((n-90)/90) append requests of at most 90
\* blocks, each but the last of exactly 90; the blocks of the create and of the
\* appends, concatenated in sending order, are the original block sequence.
C6_ChunksCoverContent ==
    (/\ Chunked /\ Done /\ sent # <<>>
     /\ \A k \in 1..Len(sent) : sent[k].ok /\ sent[k].attempt = 0)
    => /\ sent[1].kind = "create"
       /\ sent[1].children = [k \in 1..90 |-> k]
       /\ Len(sent) = 1 + ((content - 90) + 89) \div 90
       /\ \A k \in 2..Len(sent) :
             /\ sent[k].kind = "append"
             /\ Len(sent[k].children) <= 90
             /\ k < Len(sent) => Len(sent[k].children) = 90
       /\ ConcatChildren(sent) = AllBlocks

C6_Witness ==
    /\ Chunked /\ Done /\ content = 181
    /\ Len(sent) = 3
    /\ \A k \in 1..Len(sent) : sent[k].ok /\ sent[k].attempt = 0
    /\ Len(sent[3].children) = 1

\* the number of append groups of the call, and the blocks group g (from 0) holds
NumGroups == ((content - 90) + 89) \div 90

GroupBlocks(g) ==
    [k \in 1..(IF 90 * (g + 2) <= content THEN 90 ELSE content - 90 * (g + 1))
        |-> 90 * (g + 1) + k]

\* the requests sent for append group g
GroupIdx(g) ==
    { k \in 1..Len(sent) : sent[k].kind = "append" /\ sent[k].children = GroupBlocks(g) }

\* C7: in the chunked path, once the create has succeeded, an append group
\* that fails on all its max_retries attempts does not abort the operation:
\* every append group is attempted and the operation returns the descriptor
\* of the created page, however many groups failed.
C7_AppendFailureContinues ==
    (/\ Chunked /\ Done
     /\ \E c \in OkIdx : sent[c].kind = "create")
    => /\ \A g \in 0..(NumGroups - 1) : GroupIdx(g) # {}
       /\ \A c \in OkIdx : sent[c].kind = "create" => result = PageVal(sent[c].page)

C7_Witness ==
    /\ Chunked /\ Done /\ content = 181 /\ max_retries = 2
    /\ sent[1].ok
    /\ Cardinality(GroupIdx(0)) = 2
    /\ \A k \in GroupIdx(0) : ~sent[k].ok
    /\ GroupIdx(1) # {}
    /\ result = PageVal(sent[1].page)

\* C8: in the chunked path, if the create request fails on every one of its
\* attempts, the operation returns the failure signal (null), and no append
\* request is ever sent without a create having succeeded before it.
C8_FirstPartFailureFails ==
    Chunked
    => /\ \A k \in 1..Len(sent) :
             sent[k].kind = "append"
             => \E c \in 1..(k - 1) : sent[c].kind = "create" /\ sent[c].ok
       /\ (Done /\ OkIdx = {}) => result = NoneVal

C8_Witness ==
    /\ Chunked /\ Done /\ max_retries = 3
    /\ Len(sent) = 3
    /\ \A k \in 1..Len(sent) : sent[k].kind = "create" /\ ~sent[k].ok
    /\ result = NoneVal

\* C9: updatePageProperties returns true if and only if one of its attempts
\* received a success response; it returns false when max_retries attempts
\* were made without one, and false on an HTTP error that is not a 429.
C9_UpdateResult ==
    (op = "update" /\ Done)
    => /\ result = BoolVal(TRUE) <=> OkIdx # {}
       /\ (OkIdx = {} /\ Len(sent) = max_retries) => result = BoolVal(FALSE)
       /\ (lastOutcome.kind = "http" /\ lastOutcome.status # 429) => result = BoolVal(FALSE)

C9_Witness ==
    /\ op = "update" /\ Done /\ max_retries = 3
    /\ Len(sent) = 3
    /\ seen = {"timeout", "429", "other"}
    /\ result = BoolVal(FALSE)

\* C10: queryDatabase, on the first attempt that receives a success response,
\* returns exactly the results array of that response body, unchanged in
\* content and order (the empty sequence if the body has no results field),
\* and sends no further request.
C10_QueryResults ==
    (op = "query" /\ OkIdx # {})
    => /\ OkIdx = {Len(sent)}
       /\ Done
       /\ lastOutcome.body.hasResults => result = ListVal(lastOutcome.body.results)
       /\ ~lastOutcome.body.hasResults => result = ListVal(<<>>)

C10_Witness ==
    /\ op = "query" /\ Done
    /\ Len(sent) = 2
    /\ Len(result.list) = 2
    /\ result.list[1].id = "r2"
    /\ result.list[2].id = "r1"

\* the update requests sent for the page with id p
UpdatesOf(p) == { k \in 1..Len(sent) : sent[k].kind = "update" /\ sent[k].target = p }

\* C11: recordExistsForSource(sourceUrl) returns true if and only if some
\* record the unfiltered query of the script-records database returned has
\* properties.URL.url equal to sourceUrl, compared exactly; it returns false
\* when no record matches and when the query returned no records (the query
\* having failed included).
C11_ExistsResult ==
    (op = "exists" /\ Done)
    => result = BoolVal(\E k \in 1..Len(ret.list) :
                           ret.list[k].hasUrl /\ ret.list[k].url = video_url)

\* C12: resetAllChannelsActive returns true if and only if at least one
\* per-record update returned success; an update is attempted for every record
\* the query returned, and a record whose update fails does not prevent the
\* update attempts for the records after it.
C12_ResetResult ==
    (op = "reset" /\ Done)
    => /\ result = BoolVal(\E k \in 1..Len(sent) : sent[k].kind = "update" /\ sent[k].ok)
       /\ \A k \in 1..Len(records) : UpdatesOf(records[k].id) # {}

\* the number of sleeps of d milliseconds in the sequence w
RECURSIVE CountWaits(_, _)
CountWaits(w, d) ==
    IF w = <<>> THEN 0
    ELSE (IF Head(w) = d THEN 1 ELSE 0) + CountWaits(Tail(w), d)

OkAppends == { k \in OkIdx : sent[k].kind = "append" }

\* C13: in the chunked path, a pause of exactly 0.5 s follows every append
\* attempt that received a success response, before the next append group's
\* first request is sent; no 0.5 s pause follows a failed append attempt or
\* the create request.
C13_AppendPause ==
    (Chunked /\ sent # <<>>)
    => /\ (Last(sent).kind = "append" /\ Last(sent).ok) => lastWaits = <<500>>
       /\ ~(Last(sent).kind = "append" /\ Last(sent).ok) => CountWaits(lastWaits, 500) = 0
       /\ CountWaits(waits, 500) = Cardinality(OkAppends)

C13_Witness ==
    /\ Chunked /\ Done /\ content = 181
    /\ waits = <<500, 1000, 500>>
    /\ Cardinality(OkAppends) = 2

\* the update requests of the invocation, in sending order
Updates == SelectSeq(sent, LAMBDA r : r.kind = "update")

\* the place in reference_pages of the page with id p
PlaceOf(p) == CHOOSE k \in 1..Len(records) : records[k].id = p

\* C14: within one resetAllChannelsActive call the per-record updates run one
\* at a time in the order the query returned the records: the requests for a
\* record are its attempts 0, 1, ... in a row, the first request for record
\* k+1 comes only after the last request for record k, and no request for a
\* record follows a request for a later one.
C14_SequentialUpdates ==
    (op = "reset" /\ Updates # <<>>)
    => /\ Updates[1].target = records[1].id
       /\ Updates[1].attempt = 0
       /\ \A j \in 1..(Len(Updates) - 1) :
             \/ /\ Updates[j + 1].target = Updates[j].target
                /\ Updates[j + 1].attempt = Updates[j].attempt + 1
                /\ ~Updates[j].ok
             \/ /\ PlaceOf(Updates[j + 1].target) = PlaceOf(Updates[j].target) + 1
                /\ Updates[j + 1].attempt = 0

C14_Witness ==
    /\ op = "reset" /\ Done
    /\ Len(records) = 2
    /\ Len(Updates) = 4
    /\ Updates[3].target = records[1].id
    /\ Updates[4].target = records[2].id
    /\ result = BoolVal(TRUE)

\* a call of operation o_p with max_retries m run alone, from attempt a with
\* the sleeps w made so far, on the outcomes h its requests get: the requests
\* sent whose outcome is in h, the sleeps made and the value returned
RECURSIVE Alone(_, _, _, _, _)
Alone(o_p, m, h, a, w) ==
    IF a >= m
    THEN [requests |-> a, sleeps |-> w, value |-> FailureValue(o_p)]
    ELSE IF h = <<>>
         THEN [requests |-> a, sleeps |-> w, value |-> Running]
         ELSE LET d == ClassifiedHandler(Head(h), a, m, SuccessValue(o_p, Head(h)),
                                         FailureValue(o_p))
              IN  IF d.next = "retry"
                  THEN Alone(o_p, m, Tail(h), a + 1, w \o d.sleeps)
                  ELSE [requests |-> a + 1, sleeps |-> w, value |-> d.value]

\* C15: calls interleaved at their awaits do not interfere: at every moment
\* the sleeps a call has made, and when it is over the number of requests it
\* sent and the value it returned or the exception it raised, are those of
\* the same call run alone on the outcomes its own requests got.
C15_NoInterference ==
    \A c \in Calls :
        LET r == Alone(cop[c], cmax[c], cseen[c], 0, <<>>)
        IN  /\ cwaits[c] = r.sleeps
            /\ csent[c] \in {Len(cseen[c]), Len(cseen[c]) + 1}
            /\ cpc[c] = "done" => (csent[c] = r.requests /\ cresult[c] = r.value)
            /\ cpc[c] # "done" => cresult[c] = Running

C15_Witness ==
    /\ cpc[1] = "awaiting" /\ csent[1] = 3 /\ cwaits[1] = <<5000, 2000>>
    /\ cpc[2] = "sleeping" /\ csent[2] = 1 /\ cwaits[2] = <<1000>>
    /\ cmax[1] = 3 /\ cmax[2] = 2

\* C16: the retry policy is the same in every request loop: after a failed
\* attempt of the first-part create loop or of an append loop of the chunked
\* path, the sleep made and the choice to try again are those the loops of
\* query_notion_database, update_notion_page and the single-request path
\* make for the same outcome, attempt and max_retries.
C16_SamePolicy ==
    (Chunked /\ sent # <<>> /\ lastOutcome.kind \notin {"success", "none"})
    => LET d == ClassifiedHandler(lastOutcome, Last(sent).attempt, max_retries,
                                  Running, Running)
       IN  /\ lastWaits = d.sleeps
           /\ Retrying <=> d.next = "retry"

\* ceil(max(n - 90, 0) / 90): the append groups of a call with n blocks
Groups(n) ==
    IF n > MAX_BLOCKS_PER_REQUEST
    THEN (n - MAX_BLOCKS_PER_REQUEST + (MAX_BLOCKS_PER_REQUEST - 1)) \div MAX_BLOCKS_PER_REQUEST
    ELSE 0

\* the requests createReportPage with n blocks may send
CreateBound(n) == max_retries * (1 + Groups(n))

\* the requests sent since the running call of a composite operation began
SentByCall ==
    IF pc = "update"
    THEN Cardinality({ k \in 1..Len(sent) : sent[k].kind = "update" /\ sent[k].target = target })
    ELSE Cardinality({ k \in 1..Len(sent) : sent[k].kind = "query" })

\* every retry loop sends at most max_retries requests: no request carries an
\* attempt index of max_retries or more, and the requests of an operation
\* stay within its bound
RequestBound ==
    /\ \A k \in 1..Len(sent) : sent[k].attempt < max_retries
    /\ op \in {"query", "update"} => Len(sent) <= max_retries
    /\ op = "create" => Len(sent) <= CreateBound(content)
    /\ (Composite /\ pc \in {"query", "update"}) => SentByCall <= max_retries

\* the steps a retry loop at its current attempt can still take
LoopLeft == (IF attempt < max_retries THEN max_retries - attempt ELSE 0) + 1

\* the steps a retry loop can take from its start
LoopSteps == max_retries + 1

\* the steps the loop of reset_all_channels takes for n more pages and its return
ResetLeft(n) == n * (LoopSteps + 2) + 1

\* the steps the append groups after the first g take
GroupsLeft(g) == (Groups(content) - g) * (LoopSteps + 1)

\* a bound on the steps the invocation can still take, 0 when it is over
StepsLeft ==
    CASE pc = "done" -> 0
      [] pc = "query" ->
            LoopLeft + (CASE op = "exists" -> 1
                          [] op = "reset" -> 1 + ResetLeft(MaxRecords)
                          [] OTHER -> 0)
      [] pc = "update" ->
            LoopLeft + (IF op = "reset" THEN 1 + ResetLeft(Len(records) - idx - 1) ELSE 0)
      [] pc = "exists" -> LoopSteps + 2
      [] pc = "reset" -> LoopSteps + 2 + ResetLeft(MaxRecords)
      [] pc = "query_returned" ->
            IF op = "exists" THEN 1 ELSE 1 + ResetLeft(Len(ret.list))
      [] pc = "reset_loop" -> ResetLeft(Len(records) - idx)
      [] pc = "update_returned" -> 1 + ResetLeft(Len(records) - idx - 1)
      [] pc = "create" -> LoopSteps + 2 + GroupsLeft(0)
      [] pc = "single" -> LoopLeft
      [] pc = "first" -> LoopLeft + 1 + GroupsLeft(0)
      [] pc = "first_end" -> 1 + GroupsLeft(0)
      [] pc = "append" -> LoopLeft + 1 + GroupsLeft(i \div MAX_BLOCKS_PER_REQUEST + 1)
      [] pc = "append_end" -> 1 + GroupsLeft(i \div MAX_BLOCKS_PER_REQUEST + 1)

\* C17: every operation terminates for every sequence of responses, and
\* within the stated numbers of requests: every step of an operation lowers
\* a bound on the steps it can still take, an operation that is not over can
\* take a step, each retry loop sends at most max_retries requests, query
\* and update at most max_retries and create with n blocks at most
\* max_retries * (1 + ceil(max(n - 90, 0) / 90)).
C17_Terminates ==
    /\ [](RequestBound /\ StepsLeft >= 0 /\ (Done \/ ENABLED Next))
    /\ [][StepsLeft' < StepsLeft]_vars

C17_Witness ==
    /\ op = "create" /\ Done /\ content = 181 /\ max_retries = 3
    /\ Len(sent) = CreateBound(content)
    /\ seen = {"429", "success"}

\* the same request: the same call on the same target with the same blocks
SameRequest(r, q) ==
    r.kind = q.kind /\ r.target = q.target /\ r.children = q.children

\* C18: a request that has received a success response is never sent again:
\* after a success no request of the same kind to the same target with the
\* same blocks follows, no create follows a successful create (so at most
\* one create succeeds per call), and query_notion_database and
\* update_notion_page send nothing after their first success.
C18_NoResend ==
    \A j, k \in 1..Len(sent) :
        (j < k /\ sent[j].ok)
        => /\ ~SameRequest(sent[j], sent[k])
           /\ sent[j].kind = "create" => sent[k].kind # "create"
           /\ op \notin {"query", "update"}

C18_Witness ==
    /\ op = "create" /\ Done /\ content = 181
    /\ Len(sent) = 6
    /\ ~sent[1].ok /\ sent[2].ok /\ sent[2].kind = "create"
    /\ ~sent[3].ok /\ sent[4].ok /\ sent[4].kind = "append"
    /\ ~sent[5].ok /\ sent[6].ok /\ sent[6].children # sent[4].children

\* the append requests at positions k and k + 1 of the log are attempts for one
\* group, the earlier one failed
NextAttempt(k) ==
    /\ sent[k + 1].children = sent[k].children
    /\ sent[k + 1].attempt = sent[k].attempt + 1
    /\ ~sent[k].ok

\* the append request at k closed its group, by success or as the last
\* attempt, and the one at k + 1 opens the group of the blocks that follow
NextGroupAfter(k) ==
    /\ sent[k].ok \/ sent[k].attempt = max_retries - 1
    /\ sent[k + 1].attempt = 0
    /\ sent[k + 1].children # <<>>
    /\ sent[k + 1].children[1] = Last(sent[k].children) + 1

\* C19: in the chunked path every append request comes after a successful
\* create request and goes to the page id that create returned; the groups
\* are sent in increasing block order, starting with the blocks after the
\* first 90, and the first request of a group comes only after the retry
\* sequence of the group before it has ended, by success or by exhaustion.
C19_AppendsFollowCreate ==
    Chunked =>
        \A k \in 1..Len(sent) :
            sent[k].kind = "append"
            => /\ \E j \in 1..(k - 1) :
                     /\ sent[j].kind = "create" /\ sent[j].ok
                     /\ sent[k].target = sent[j].page
               /\ IF sent[k - 1].kind = "create"
                  THEN sent[k].attempt = 0 /\ sent[k].children = GroupBlocks(0)
                  ELSE NextAttempt(k - 1) \/ NextGroupAfter(k - 1)

C19_Witness ==
    /\ Chunked /\ Done /\ content = 181 /\ max_retries = 3
    /\ Len(sent) = 7
    /\ ~sent[1].ok /\ sent[2].ok /\ sent[2].page = "pgB"
    /\ sent[5].kind = "append" /\ sent[5].attempt = 2 /\ ~sent[5].ok
    /\ sent[6].children = GroupBlocks(1) /\ ~sent[6].ok
    /\ sent[7].ok /\ sent[7].target = "pgB"

=============================================================================
